---- MODULE Spec2Model ----
(***************************************************************************)
(* Model of the two notebooks of the repository:                           *)
(*   - "Part 3 - Training Neural Networks" (src/unnamed/part_000): one     *)
(*     training step, then the epoch/mini-batch training loop;             *)
(*   - "Saving and Loading Models" (src/unnamed/part_001): state-dict and  *)
(*     checkpoint persistence, load_checkpoint.                            *)
(*                                                                         *)
(* Tensors.  A tensor is [shape, v]: the tensor of that shape whose first  *)
(* element is v and whose other elements are 0.  All arithmetic on this    *)
(* family (affine map, ReLU, dropout) is exact and stays inside it.        *)
(* Dropout probabilities are percentages.                                  *)
(***************************************************************************)
EXTENDS Integers, Sequences, FiniteSets, TLC

VARIABLES
    \* ---- Saving and Loading Models (part_001) ----
    pc,            \* the next cell of the notebook to run
    model,         \* the Python variable `model`
    state_dict,    \* the Python variable `state_dict`
    checkpoint,    \* the Python variable `checkpoint`
    disk,          \* the file 'checkpoint.pth'
    raised,        \* the exception the last cell ended with, or "none"
    last,          \* the cell that ran last
    trained,       \* history: the model as fc_model.train left it
    saved,         \* history: the model the checkpoint on disk was saved from
    built,         \* history: the network the last Network(...) call constructed
    \* ---- Training Neural Networks (part_000) ----
    cell,          \* the cell that is running: "single", "loop", "predict", "done"
    at,            \* the statement the running cell is at
    lr,            \* the optimizer's learning rate, in thousandths
    e,             \* the loop variable e of `for e in range(epochs)`
    it,            \* batches the current epoch's iterator has handed out
    steps,         \* steps
    running_loss,  \* running_loss
    images,        \* the shape of the tensor `images`
    grad,          \* the .grad of the parameters: the loss gradients summed into it
    weights,       \* the parameters: the optimizer updates applied to them so far
    output,        \* output / logits
    loss,          \* loss
    printed,       \* the progress lines printed so far
    cur,           \* history: the mini-batch being processed (0: the single step)
    log,           \* history: the steps run on the current mini-batch
    summed,        \* history: the steps whose losses are summed in running_loss
    exc,           \* the exception the running cell ended with, or "none"
    env,           \* what the session runs on: the elements of one example of
                   \* the data set, and whether a framework call may raise
    \* ---- constructing a network and calling it ----
    fpc,           \* "construct", "forward", "again", "done" ("off": not in use)
    args,          \* the constructor and the arguments it is called with
    net,           \* the network the constructor returned, or None
    batch,         \* the input tensor of the forward passes
    outs,          \* the forward passes run so far: mode, dropout draw, output
    ferr,          \* the exception the constructor raised, or "none"
    \* ---- fc_model.train, statement by statement ----
    fat,           \* the statement fc_model.train is at ("off": not running)
    fe,            \* its loop variable e
    fi,            \* batches the current epoch's iterator has handed out
    fsteps,        \* its variable steps
    ftest,         \* test batches the running evaluation pass has been through
    flog,          \* history: the forward passes, with the pass they belong to
                   \* and whether the dropout layers were dropping
    fupd,          \* history: the optimizer steps taken
    fsnap          \* history: the parameters when the last evaluation pass began

ckvars == <<pc, model, state_dict, checkpoint, disk, raised, last, trained, saved, built>>

trvars == <<cell, at, lr, e, it, steps, running_loss, images, grad, weights, output,
            loss, printed, cur, log, summed, exc, env>>

fwvars == <<fpc, args, net, batch, outs, ferr>>

fitvars == <<fat, fe, fi, fsteps, ftest, flog, fupd, fsnap>>

vars == <<ckvars, trvars, fwvars, fitvars>>

---------------------------------------------------------------------------
(* Bounds of the model *)

\* trained parameter values range over 0..MaxParam
MaxParam == 1
\* freshly initialised parameters take a value in 0..MaxInit
MaxInit == 1

\* examples in the training set
TrainSize == 1700

ParamValues == 0..MaxParam
InitValues == 0..MaxInit

None == <<>>

---------------------------------------------------------------------------
(* fc_model.Network and the framework operations the cells call *)

\* Dropout(p=0.5): the default drop probability of fc_model.Network, in percent
DefaultDropP == 50

DropPs == {DefaultDropP, 80}

Linear(i, o) == [in_features |-> i, out_features |-> o]

WeightName == <<"hidden_layers.0.weight", "hidden_layers.1.weight", "hidden_layers.2.weight">>
BiasName == <<"hidden_layers.0.bias", "hidden_layers.1.bias", "hidden_layers.2.bias">>

\* the keys of the state dict of a network with n hidden layers
ParamNames(n) ==
    {WeightName[i] : i \in 1..n} \cup {BiasName[i] : i \in 1..n}
        \cup {"output.weight", "output.bias"}

\* the layers of the network: hidden_layers (ModuleList) and output
HiddenModules(input_size, hidden) ==
    [i \in 1..Len(hidden) |->
        Linear(IF i = 1 THEN input_size ELSE hidden[i - 1], hidden[i])]

OutputModule(input_size, output_size, hidden) ==
    Linear(IF Len(hidden) = 0 THEN input_size ELSE hidden[Len(hidden)], output_size)

\* the shape of the parameter called k in a network with these layers
ShapeOf(hl, out, k) ==
    IF k = "output.weight" THEN <<out.out_features, out.in_features>>
    ELSE IF k = "output.bias" THEN <<out.out_features>>
    ELSE LET i == CHOOSE j \in 1..Len(hl) : k \in {WeightName[j], BiasName[j]}
         IN  IF k = WeightName[i] THEN <<hl[i].out_features, hl[i].in_features>>
             ELSE <<hl[i].out_features>>

\* fc_model.Network(input_size, output_size, hidden_layers, drop_p); w0 is the
\* outcome of the random initialisation
Network(input_size, output_size, hidden, drop_p, w0) ==
    LET hl == HiddenModules(input_size, hidden)
        out == OutputModule(input_size, output_size, hidden)
    IN  [hidden_layers |-> hl,
         output |-> out,
         drop_p |-> drop_p,
         training |-> TRUE,
         params |-> [k \in ParamNames(Len(hidden)) |->
                        [shape |-> ShapeOf(hl, out, k), v |-> w0]]]

\* model.state_dict()
StateDictOf(m) == m.params

\* the input width and output width of a network
InputWidth(m) ==
    IF Len(m.hidden_layers) = 0 THEN m.output.in_features
    ELSE m.hidden_layers[1].in_features

OutputWidth(m) == m.output.out_features

HiddenWidths(m) == [i \in 1..Len(m.hidden_layers) |-> m.hidden_layers[i].out_features]

\* load_state_dict that restores the weights and leaves the biases as constructed
load_state_dict_weights_only(m, sd) ==
    LET match(k) == k \in DOMAIN sd /\ sd[k].shape = m.params[k].shape
        ok == DOMAIN sd = DOMAIN m.params /\ \A k \in DOMAIN m.params : match(k)
        bias(k) == k = "output.bias" \/ \E i \in 1..3 : k = BiasName[i]
    IN  [err |-> IF ok THEN "none" ELSE "RuntimeError",
         model |-> [m EXCEPT !.params =
                       [k \in DOMAIN m.params |->
                           IF match(k) /\ ~bias(k) THEN sd[k] ELSE m.params[k]]]]

\* load_state_dict that reports no mismatch (strict=False)
load_state_dict_not_strict(m, sd) ==
    LET match(k) == k \in DOMAIN sd /\ sd[k].shape = m.params[k].shape
    IN  [err |-> "none",
         model |-> [m EXCEPT !.params =
                       [k \in DOMAIN m.params |->
                           IF match(k) THEN sd[k] ELSE m.params[k]]]]

\* model.load_state_dict(sd), strict: parameters whose key and shape match are
\* copied, then every missing key, unexpected key and size mismatch is reported
\* in one RuntimeError
load_state_dict(m, sd) ==
    LET match(k) == k \in DOMAIN sd /\ sd[k].shape = m.params[k].shape
        ok == DOMAIN sd = DOMAIN m.params /\ \A k \in DOMAIN m.params : match(k)
    IN  [err |-> IF ok THEN "none" ELSE "RuntimeError",
         model |-> [m EXCEPT !.params =
                       [k \in DOMAIN m.params |->
                           IF match(k) THEN sd[k] ELSE m.params[k]]]]

Relu(x) == IF x > 0 THEN x ELSE 0

\* a dropout layer that drops in evaluation mode too
Dropout_in_eval(m, h, keep) ==
    IF m.drop_p = 0 THEN h
    ELSE IF keep THEN (h * 100) \div (100 - m.drop_p)
    ELSE 0

\* nn.Dropout in training mode: a dropped element is zeroed, a kept one is
\* scaled by 1/(1-p); the identity in evaluation mode
Dropout(m, h, keep) ==
    IF ~m.training \/ m.drop_p = 0 THEN h
    ELSE IF keep THEN (h * 100) \div (100 - m.drop_p)
    ELSE 0

RECURSIVE HiddenPass(_, _, _, _)
\* the activation after hidden layers i..n, from activation h entering layer i
HiddenPass(m, i, h, keep) ==
    IF i > Len(m.hidden_layers) THEN h
    ELSE HiddenPass(m, i + 1,
            Dropout(m, Relu(m.params[WeightName[i]].v * h + m.params[BiasName[i]].v),
                    keep[i]),
            keep)

\* model.forward(x): the logits; keep[i] is the dropout draw after hidden layer i
Forward(m, x, keep) ==
    IF x.shape[2] # InputWidth(m)
    THEN [err |-> "RuntimeError", shape |-> <<>>, v |-> 0]
    ELSE [err |-> "none",
          shape |-> <<x.shape[1], OutputWidth(m)>>,
          v |-> m.params["output.weight"].v * HiddenPass(m, 1, x.v, keep)
                   + m.params["output.bias"].v]

\* model.eval()
Eval(m) == [m EXCEPT !.training = FALSE]

---------------------------------------------------------------------------
(* torch.save / torch.load: a mapping is pickled as the sequence of its    *)
(* (key, value) entries in the mapping's order and rebuilt from it         *)

StateDictKeys(n) ==
    [j \in 1..(2 * n + 2) |->
        IF j = 2 * n + 1 THEN "output.weight"
        ELSE IF j = 2 * n + 2 THEN "output.bias"
        ELSE IF j % 2 = 1 THEN WeightName[(j + 1) \div 2]
        ELSE BiasName[j \div 2]]

CheckpointKeys == <<"input_size", "output_size", "hidden_layers", "state_dict">>

\* number of hidden layers a state dict describes
SdLayers(sd) == (Cardinality(DOMAIN sd) - 2) \div 2

Pickle(keys, obj) == [j \in 1..Len(keys) |-> <<keys[j], obj[keys[j]]>>]

Unpickle(bytes) ==
    [k \in {bytes[j][1] : j \in 1..Len(bytes)} |->
        LET j == CHOOSE i \in 1..Len(bytes) : bytes[i][1] = k IN bytes[j][2]]

\* torch.save(model.state_dict(), 'checkpoint.pth')
SaveStateDictFile(sd) ==
    [exists |-> TRUE, data |-> Pickle(StateDictKeys(SdLayers(sd)), sd)]

\* a save that writes the state dict alone, as the state-dict save cell does
SaveCheckpointFile_state_dict_only(c) ==
    [exists |-> TRUE,
     data |-> Pickle(StateDictKeys(SdLayers(c["state_dict"])), c["state_dict"])]

\* torch.save(checkpoint, 'checkpoint.pth')
SaveCheckpointFile(c) ==
    [exists |-> TRUE,
     data |-> Pickle(CheckpointKeys,
                 [c EXCEPT !["state_dict"] =
                     Pickle(StateDictKeys(SdLayers(c["state_dict"])), c["state_dict"])])]

\* the keys of the mapping a file holds
FileKeys(d) == {d.data[j][1] : j \in 1..Len(d.data)}

\* torch.load('checkpoint.pth')
TorchLoad(d) ==
    IF ~d.exists THEN [err |-> "FileNotFoundError", obj |-> None]
    ELSE LET top == Unpickle(d.data)
         IN  [err |-> "none",
              obj |-> IF "state_dict" \in DOMAIN top
                      THEN [top EXCEPT !["state_dict"] = Unpickle(top["state_dict"])]
                      ELSE top]

---------------------------------------------------------------------------
(* The cells of "Saving and Loading Models", in their written order *)

\* the hidden-layer lists the sessions draw from; the notebook's own are
\* <<512, 256, 128>> (model creation cell) and <<400, 200, 100>> (mismatched load)
HiddenLists == {<<>>, <<512>>, <<400>>}

\* the hidden-layer lists of the network a stored state dict is loaded into
OtherHiddenLists == HiddenLists \cup {<<512, 256>>}

\* the (input_size, output_size) pairs the sessions draw from; the notebook's own
\* is <<784, 10>>
Sizes == {<<784, 10>>, <<20, 10>>, <<784, 2>>}

\* the inputs the forward passes are compared on: one example, first element v
Inputs(width) == {[shape |-> <<1, width>>, v |-> xv] : xv \in {0 - 1, 1, 2}}

NoKeep == <<FALSE, FALSE, FALSE>>

Cells == <<"create", "train", "save_sd", "load_sd", "apply_sd", "mismatch",
           "save_ckpt", "load_ckpt", "done">>

After(c) == Cells[1 + CHOOSE i \in 1..(Len(Cells) - 1) : Cells[i] = c]

\* the update every cell makes to the session's bookkeeping
Ran(c, err) ==
    /\ pc' = After(c)
    /\ last' = c
    /\ raised' = err
    /\ UNCHANGED <<trvars, fwvars, fitvars>>

\* model = fc_model.Network(input_size, output_size, hidden)
CreateModel(input_size, output_size, hidden, drop_p) ==
    /\ pc = "create"
    /\ \E w0 \in InitValues :
          /\ model' = Network(input_size, output_size, hidden, drop_p, w0)
          /\ built' = model'
    /\ Ran("create", "none")
    /\ UNCHANGED <<state_dict, checkpoint, disk, trained, saved>>

\* fc_model.train(model, trainloader, testloader, criterion, optimizer, epochs=2):
\* the optimizer leaves every parameter with some trained value
Train ==
    /\ pc = "train"
    /\ \E vals \in [DOMAIN model.params -> ParamValues] :
          model' = [model EXCEPT !.params =
                       [k \in DOMAIN model.params |->
                           [model.params[k] EXCEPT !.v = vals[k]]]]
    /\ trained' = model'
    /\ Ran("train", "none")
    /\ UNCHANGED <<state_dict, checkpoint, disk, saved, built>>

\* torch.save(model.state_dict(), 'checkpoint.pth')
SaveStateDict ==
    /\ pc = "save_sd"
    /\ disk' = SaveStateDictFile(StateDictOf(model))
    /\ Ran("save_sd", "none")
    /\ UNCHANGED <<model, state_dict, checkpoint, trained, saved, built>>

\* state_dict = torch.load('checkpoint.pth')
LoadStateDict ==
    /\ pc = "load_sd"
    /\ LET r == TorchLoad(disk)
       IN  /\ state_dict' = IF r.err = "none" THEN r.obj ELSE state_dict
           /\ Ran("load_sd", r.err)
    /\ UNCHANGED <<model, checkpoint, disk, trained, saved, built>>

\* model.load_state_dict(state_dict)
ApplyStateDict ==
    /\ pc = "apply_sd"
    /\ IF state_dict = None
       THEN /\ Ran("apply_sd", "NameError")
            /\ UNCHANGED model
       ELSE LET r == load_state_dict(model, state_dict)
            IN  /\ model' = r.model
                /\ Ran("apply_sd", r.err)
    /\ UNCHANGED <<state_dict, checkpoint, disk, trained, saved, built>>

\* model = fc_model.Network(784, 10, hidden); model.load_state_dict(state_dict)
MismatchedLoad(hidden) ==
    /\ pc = "mismatch"
    /\ \E w0 \in InitValues :
          LET fresh == Network(784, 10, hidden, DefaultDropP, w0)
          IN  /\ built' = fresh
              /\ IF state_dict = None
                 THEN /\ model' = fresh
                      /\ Ran("mismatch", "NameError")
                 ELSE LET r == load_state_dict(fresh, state_dict)
                      IN  /\ model' = r.model
                          /\ Ran("mismatch", r.err)
    /\ UNCHANGED <<state_dict, checkpoint, disk, trained, saved>>

\* checkpoint = {'input_size': 784, 'output_size': 10,
\*               'hidden_layers': [each.out_features for each in model.hidden_layers],
\*               'state_dict': model.state_dict()}
CheckpointOf(m) ==
    [input_size |-> 784,
     output_size |-> 10,
     hidden_layers |-> [i \in 1..Len(m.hidden_layers) |-> m.hidden_layers[i].out_features],
     state_dict |-> StateDictOf(m)]

\* the checkpoint save cell
SaveCheckpoint ==
    /\ pc = "save_ckpt"
    /\ checkpoint' = CheckpointOf(model)
    /\ disk' = SaveCheckpointFile(checkpoint')
    /\ saved' = model
    /\ Ran("save_ckpt", "none")
    /\ UNCHANGED <<model, state_dict, trained, built>>

\* load_checkpoint without its model.load_state_dict call
load_checkpoint_no_restore(file, w0) ==
    LET c == TorchLoad(file).obj
        fresh == Network(c["input_size"], c["output_size"],
                         c["hidden_layers"], DefaultDropP, w0)
    IN  IF TorchLoad(file).err # "none"
        THEN [err |-> TorchLoad(file).err, built |-> None, model |-> None]
        ELSE IF ~({"input_size", "output_size", "hidden_layers"} \subseteq DOMAIN c)
        THEN [err |-> "KeyError", built |-> None, model |-> None]
        ELSE [err |-> "none", built |-> fresh, model |-> fresh]

\* load_checkpoint that returns the model whatever load_state_dict reported
load_checkpoint_ignore_error(file, w0) ==
    LET c == TorchLoad(file).obj
        fresh == Network(c["input_size"], c["output_size"],
                         c["hidden_layers"], DefaultDropP, w0)
    IN  IF TorchLoad(file).err # "none"
        THEN [err |-> TorchLoad(file).err, built |-> None, model |-> None]
        ELSE IF ~({"input_size", "output_size", "hidden_layers"} \subseteq DOMAIN c)
        THEN [err |-> "KeyError", built |-> None, model |-> None]
        ELSE [err |-> "none", built |-> fresh,
              model |-> load_state_dict(fresh, c["state_dict"]).model]

\* load_checkpoint(filepath); fresh is what fc_model.Network constructs
load_checkpoint(file, w0) ==
    LET r == TorchLoad(file)
        c == r.obj
    IN  IF r.err # "none" THEN [err |-> r.err, built |-> None, model |-> None]
        ELSE IF ~({"input_size", "output_size", "hidden_layers"} \subseteq DOMAIN c)
        THEN [err |-> "KeyError", built |-> None, model |-> None]
        ELSE LET fresh == Network(c["input_size"], c["output_size"],
                                  c["hidden_layers"], DefaultDropP, w0)
                 l == load_state_dict(fresh, c["state_dict"])
             IN  IF l.err # "none"
                 THEN [err |-> l.err, built |-> fresh, model |-> None]
                 ELSE [err |-> "none", built |-> fresh, model |-> l.model]

\* model = load_checkpoint('checkpoint.pth')
LoadCheckpoint ==
    /\ pc = "load_ckpt"
    /\ \E w0 \in InitValues :
          LET r == load_checkpoint(disk, w0)
          IN  /\ model' = IF r.err = "none" THEN r.model ELSE model
              /\ built' = IF r.built = None THEN built ELSE r.built
              /\ Ran("load_ckpt", r.err)
    /\ UNCHANGED <<state_dict, checkpoint, disk, trained, saved>>

\* a session may leave out a cell after training
Skip ==
    /\ pc \in {"save_sd", "load_sd", "apply_sd", "mismatch", "save_ckpt"}
    /\ pc' = After(pc)
    /\ UNCHANGED <<model, state_dict, checkpoint, disk, raised, last, trained, saved, built>>
    /\ UNCHANGED <<trvars, fwvars, fitvars>>

\* the session of "Saving and Loading Models" before its first cell
CellsStart ==
    /\ pc = "create"
    /\ model = None
    /\ state_dict = None
    /\ checkpoint = None
    /\ disk = [exists |-> FALSE, data |-> <<>>]
    /\ raised = "none"
    /\ last = "none"
    /\ trained = None
    /\ saved = None
    /\ built = None

\* no network is being constructed and called outside the cells
ContractIdle ==
    /\ fpc = "off"
    /\ args = None
    /\ net = None
    /\ batch = None
    /\ outs = <<>>
    /\ ferr = "none"

\* fc_model.train is not being stepped through
FitIdle ==
    /\ fat = "off"
    /\ fe = 0 - 1
    /\ fi = 0
    /\ fsteps = 0
    /\ ftest = 0
    /\ flog = <<>>
    /\ fupd = 0
    /\ fsnap = None

---------------------------------------------------------------------------
(* "Training Neural Networks": the single training step and the training loop *)

epochs == 3

print_every == 40

batch_size == 64

input_size == 784

output_size == 10

\* lr=0.01 and lr=0.003, in thousandths
lr_single == 10

lr_loop == 3

\* the values loss.item() takes
LossValues == {1, 2}

\* DataLoader(trainset, batch_size=64): batches per epoch, the last one partial
NumBatches == (TrainSize + batch_size - 1) \div batch_size

BatchLen(i) ==
    IF i < NumBatches \/ TrainSize % batch_size = 0 THEN batch_size
    ELSE TrainSize % batch_size

\* the order of the statements of one training step
StepOrder == <<"zero_grad", "forward", "loss", "backward", "step">>

\* a training step that goes from the backward pass on without optimizer.step()
NextAt_no_step(a, c) ==
    CASE a = "fetch" -> "zero_grad"
      [] a = "zero_grad" -> "forward"
      [] a = "forward" -> "loss"
      [] a = "loss" -> "backward"
      [] a = "backward" -> IF c = "single" THEN "end" ELSE "accumulate"
      [] a = "step" -> IF c = "single" THEN "end" ELSE "accumulate"
      [] a = "accumulate" -> "report"
      [] a = "report" -> "batch"

\* the statement after statement a of cell c
NextAt(a, c) ==
    CASE a = "fetch" -> "zero_grad"
      [] a = "zero_grad" -> "forward"
      [] a = "forward" -> "loss"
      [] a = "loss" -> "backward"
      [] a = "backward" -> "step"
      [] a = "step" -> IF c = "single" THEN "end" ELSE "accumulate"
      [] a = "accumulate" -> "report"
      [] a = "report" -> "batch"

\* an optimizer.zero_grad() that clears nothing
zero_grad_keeps(g) == g

\* optimizer.zero_grad()
zero_grad(g) == <<>>

\* loss.backward(): the gradient of this loss is added to .grad
backward(g, l) == Append(g, [batch |-> l.batch, version |-> l.version])

\* optimizer.step(): w' = w - lr * grad
step(w, rate, g) == Append(w, [lr |-> rate, grad |-> g])

\* the elements of one example: 1x28x28 (MNIST), 3x32x32, 1x14x14
ExampleSizes == {784, 3072, 196}

\* a resize_ to the full batch size whatever the batch holds
resize_to_batch_size(shape, sizes) == <<batch_size, sizes[2]>>

\* t.resize_(*sizes): the tensor takes the new shape whatever its number of
\* elements was; its storage is reused from the start, or grown when too small
resize_(shape, sizes) == sizes

\* the outcomes of a framework call: it returns, or it may raise
Outcomes == IF env.faulty THEN {"none", "RuntimeError"} ELSE {"none"}

\* an exception that leaves the loop body and the loops, handled nowhere,
\* handled by going on with the next mini-batch
Raise_swallowed(c) == [cell |-> c, at |-> IF c = "single" THEN "end" ELSE "batch"]

\* an exception raised in cell c: nothing in the cell catches it, the cell ends
Raise(c) == [cell |-> "done", at |-> "RuntimeError"]

\* images, labels = next(iter(trainloader)); images.resize_(64, 784)
SingleFetch ==
    /\ cell = "single" /\ at = "fetch"
    /\ images' = resize_(<<64, env.elems>>, <<64, 784>>)
    /\ cur' = 0
    /\ log' = <<>>
    /\ at' = NextAt(at, cell)
    /\ UNCHANGED <<cell, lr, e, it, steps, running_loss, grad, weights, output, loss, printed>>
    /\ UNCHANGED <<summed, exc, env, ckvars, fwvars, fitvars>>

\* optimizer.zero_grad()
ZeroGrad ==
    /\ cell \in {"single", "loop"} /\ at = "zero_grad"
    /\ grad' = zero_grad(grad)
    /\ log' = Append(log, "zero_grad")
    /\ at' = NextAt(at, cell)
    /\ UNCHANGED <<cell, lr, e, it, steps, running_loss, images, weights, output, loss, printed, cur>>
    /\ UNCHANGED <<summed, exc, env, ckvars, fwvars, fitvars>>

\* output = model.forward(images)
ForwardPass ==
    /\ cell \in {"single", "loop"} /\ at = "forward"
    /\ \E r \in Outcomes :
          IF images[2] = input_size /\ r = "none"
          THEN /\ output' = [batch |-> cur, version |-> Len(weights),
                             shape |-> <<images[1], output_size>>]
               /\ log' = Append(log, "forward")
               /\ at' = NextAt(at, cell)
               /\ UNCHANGED <<cell, exc>>
          ELSE /\ cell' = Raise(cell).cell
               /\ at' = Raise(cell).at
               /\ exc' = "RuntimeError"
               /\ UNCHANGED <<output, log>>
    /\ UNCHANGED <<lr, e, it, steps, running_loss, images, grad, weights, loss, printed, cur>>
    /\ UNCHANGED <<summed, env, ckvars, fwvars, fitvars>>

\* loss = criterion(output, labels)
LossStep ==
    /\ cell \in {"single", "loop"} /\ at = "loss"
    /\ \E r \in Outcomes :
          IF r = "none"
          THEN /\ \E l \in LossValues :
                     loss' = [batch |-> output.batch, version |-> output.version,
                              item |-> l]
               /\ log' = Append(log, "loss")
               /\ at' = NextAt(at, cell)
               /\ UNCHANGED <<cell, exc>>
          ELSE /\ cell' = Raise(cell).cell
               /\ at' = Raise(cell).at
               /\ exc' = r
               /\ UNCHANGED <<loss, log>>
    /\ UNCHANGED <<lr, e, it, steps, running_loss, images, grad, weights, output, printed, cur>>
    /\ UNCHANGED <<summed, env, ckvars, fwvars, fitvars>>

\* loss.backward()
BackwardPass ==
    /\ cell \in {"single", "loop"} /\ at = "backward"
    /\ \E r \in Outcomes :
          IF r = "none"
          THEN /\ grad' = backward(grad, loss)
               /\ log' = Append(log, "backward")
               /\ at' = NextAt(at, cell)
               /\ UNCHANGED <<cell, exc>>
          ELSE /\ cell' = Raise(cell).cell
               /\ at' = Raise(cell).at
               /\ exc' = r
               /\ UNCHANGED <<grad, log>>
    /\ UNCHANGED <<lr, e, it, steps, running_loss, images, weights, output, loss, printed, cur>>
    /\ UNCHANGED <<summed, env, ckvars, fwvars, fitvars>>

\* optimizer.step()
OptimizerStep ==
    /\ cell \in {"single", "loop"} /\ at = "step"
    /\ weights' = step(weights, lr, grad)
    /\ log' = Append(log, "step")
    /\ at' = NextAt(at, cell)
    /\ UNCHANGED <<cell, lr, e, it, steps, running_loss, images, grad, output, loss, printed, cur>>
    /\ UNCHANGED <<summed, exc, env, ckvars, fwvars, fitvars>>

\* optimizer = optim.SGD(model.parameters(), lr=0.003); epochs = 3;
\* print_every = 40; steps = 0
StartLoop ==
    /\ cell = "single" /\ at = "end"
    /\ cell' = "loop"
    /\ at' = "epoch"
    /\ lr' = lr_loop
    /\ steps' = 0
    /\ UNCHANGED <<e, it, running_loss, images, grad, weights, output, loss, printed, cur, log>>
    /\ UNCHANGED <<summed, exc, env, ckvars, fwvars, fitvars>>

\* an epoch head that goes on with the iterator of the epoch before
EpochHead_no_restart ==
    /\ cell = "loop" /\ at = "epoch"
    /\ IF e + 1 < epochs
       THEN /\ e' = e + 1
            /\ running_loss' = 0
            /\ summed' = <<>>
            /\ it' = it
            /\ at' = "batch"
            /\ cell' = cell
       ELSE /\ cell' = "predict"
            /\ at' = "fetch"
            /\ UNCHANGED <<e, running_loss, summed, it>>
    /\ UNCHANGED <<lr, steps, images, grad, weights, output, loss, printed, cur, log>>
    /\ UNCHANGED <<exc, env, ckvars, fwvars, fitvars>>

\* an epoch head that starts the step count anew
EpochHead_resets_steps ==
    /\ cell = "loop" /\ at = "epoch"
    /\ IF e + 1 < epochs
       THEN /\ e' = e + 1
            /\ running_loss' = 0
            /\ summed' = <<>>
            /\ it' = 0
            /\ steps' = 0
            /\ at' = "batch"
            /\ cell' = cell
       ELSE /\ cell' = "predict"
            /\ at' = "fetch"
            /\ UNCHANGED <<e, running_loss, summed, it, steps>>
    /\ UNCHANGED <<lr, images, grad, weights, output, loss, printed, cur, log>>
    /\ UNCHANGED <<exc, env, ckvars, fwvars, fitvars>>

\* for e in range(epochs): running_loss = 0
EpochHead ==
    /\ cell = "loop" /\ at = "epoch"
    /\ IF e + 1 < epochs
       THEN /\ e' = e + 1
            /\ running_loss' = 0
            /\ summed' = <<>>
            /\ it' = 0
            /\ at' = "batch"
            /\ cell' = cell
       ELSE /\ cell' = "predict"
            /\ at' = "fetch"
            /\ UNCHANGED <<e, running_loss, summed, it>>
    /\ UNCHANGED <<lr, steps, images, grad, weights, output, loss, printed, cur, log>>
    /\ UNCHANGED <<exc, env, ckvars, fwvars, fitvars>>

\* for images, labels in iter(trainloader): steps += 1;
\* images.resize_(images.size()[0], 784)
BatchHead ==
    /\ cell = "loop" /\ at = "batch"
    /\ IF it < NumBatches
       THEN /\ it' = it + 1
            /\ steps' = steps + 1
            /\ images' = resize_(<<BatchLen(it + 1), env.elems>>,
                                  <<BatchLen(it + 1), 784>>)
            /\ cur' = steps'
            /\ log' = <<>>
            /\ at' = "zero_grad"
       ELSE /\ at' = "epoch"
            /\ UNCHANGED <<it, steps, images, cur, log>>
    /\ UNCHANGED <<cell, lr, e, running_loss, grad, weights, output, loss, printed>>
    /\ UNCHANGED <<summed, exc, env, ckvars, fwvars, fitvars>>

\* running_loss += loss.item()
Accumulate ==
    /\ cell = "loop" /\ at = "accumulate"
    /\ running_loss' = running_loss + loss.item
    /\ summed' = Append(summed, steps)
    /\ at' = NextAt(at, cell)
    /\ UNCHANGED <<cell, lr, e, it, steps, images, grad, weights, output, loss, printed, cur, log>>
    /\ UNCHANGED <<exc, env, ckvars, fwvars, fitvars>>

\* a report that counts the batches of the epoch instead of the steps
Report_counts_in_epoch ==
    /\ cell = "loop" /\ at = "report"
    /\ IF it % print_every = 0
       THEN /\ printed' = Append(printed,
                             [epoch |-> e + 1, of |-> epochs, sum |-> running_loss,
                              per |-> print_every])
            /\ running_loss' = 0
            /\ summed' = <<>>
       ELSE UNCHANGED <<printed, running_loss, summed>>
    /\ at' = NextAt(at, cell)
    /\ UNCHANGED <<cell, lr, e, it, steps, images, grad, weights, output, loss, cur, log>>
    /\ UNCHANGED <<exc, env, ckvars, fwvars, fitvars>>

\* a report that goes on summing after the line is printed
Report_no_reset ==
    /\ cell = "loop" /\ at = "report"
    /\ IF steps % print_every = 0
       THEN /\ printed' = Append(printed,
                             [epoch |-> e + 1, of |-> epochs, sum |-> running_loss,
                              per |-> print_every])
            /\ UNCHANGED <<running_loss, summed>>
       ELSE UNCHANGED <<printed, running_loss, summed>>
    /\ at' = NextAt(at, cell)
    /\ UNCHANGED <<cell, lr, e, it, steps, images, grad, weights, output, loss, cur, log>>
    /\ UNCHANGED <<exc, env, ckvars, fwvars, fitvars>>

\* if steps % print_every == 0: print(e+1, epochs, running_loss/print_every);
\* running_loss = 0
Report ==
    /\ cell = "loop" /\ at = "report"
    /\ IF steps % print_every = 0
       THEN /\ printed' = Append(printed,
                             [epoch |-> e + 1, of |-> epochs, sum |-> running_loss,
                              per |-> print_every])
            /\ running_loss' = 0
            /\ summed' = <<>>
       ELSE UNCHANGED <<printed, running_loss, summed>>
    /\ at' = NextAt(at, cell)
    /\ UNCHANGED <<cell, lr, e, it, steps, images, grad, weights, output, loss, cur, log>>
    /\ UNCHANGED <<exc, env, ckvars, fwvars, fitvars>>

\* a prediction pass that updates the parameters
Predict_trains ==
    /\ cell = "predict" /\ at = "fetch"
    /\ images' = <<batch_size, 1, 28, 28>>
    /\ output' = [batch |-> "img", version |-> Len(weights), shape |-> <<1, output_size>>]
    /\ weights' = step(weights, lr, grad)
    /\ cell' = "done"
    /\ at' = "end"
    /\ UNCHANGED <<lr, e, it, steps, running_loss, grad, loss, printed, cur, log>>
    /\ UNCHANGED <<summed, exc, env, ckvars, fwvars, fitvars>>

\* images, labels = next(iter(trainloader)); img = images[0].view(1, 784);
\* with torch.no_grad(): logits = model.forward(img)
Predict ==
    /\ cell = "predict" /\ at = "fetch"
    /\ images' = <<batch_size, 1, 28, 28>>
    /\ output' = [batch |-> "img", version |-> Len(weights), shape |-> <<1, output_size>>]
    /\ cell' = "done"
    /\ at' = "end"
    /\ UNCHANGED <<lr, e, it, steps, running_loss, grad, weights, loss, printed, cur, log>>
    /\ UNCHANGED <<summed, exc, env, ckvars, fwvars, fitvars>>

\* the session once the network, the criterion and the optimizer (lr=0.01) exist
TrainStart ==
    /\ cell = "single"
    /\ at = "fetch"
    /\ lr = lr_single
    /\ e = 0 - 1
    /\ it = 0
    /\ steps = 0
    /\ running_loss = 0
    /\ images = <<>>
    /\ grad = <<>>
    /\ weights = <<>>
    /\ output = None
    /\ loss = None
    /\ printed = <<>>
    /\ cur = 0
    /\ log = <<>>
    /\ summed = <<>>
    /\ exc = "none"
    /\ env = [elems |-> 784, faulty |-> FALSE]

InitTrain == TrainStart /\ CellsStart /\ ContractIdle /\ FitIdle

NextTrain ==
    \/ SingleFetch
    \/ ZeroGrad
    \/ ForwardPass
    \/ LossStep
    \/ BackwardPass
    \/ OptimizerStep
    \/ StartLoop
    \/ EpochHead
    \/ BatchHead
    \/ Accumulate
    \/ Report
    \/ Predict

SpecTrain == InitTrain /\ [][NextTrain]_vars

\* the cells run one statement after the other, to the end of the session
SpecTrainLive == InitTrain /\ [][NextTrain]_vars /\ WF_vars(NextTrain)

\* the same cells on a data set of any example size, framework calls may raise
InitTrainAny ==
    /\ CellsStart
    /\ ContractIdle
    /\ FitIdle
    /\ cell = "single" /\ at = "fetch" /\ lr = lr_single
    /\ e = 0 - 1 /\ it = 0 /\ steps = 0 /\ running_loss = 0
    /\ images = <<>> /\ grad = <<>> /\ weights = <<>>
    /\ output = None /\ loss = None /\ printed = <<>>
    /\ cur = 0 /\ log = <<>> /\ summed = <<>> /\ exc = "none"
    /\ env \in [elems : ExampleSizes, faulty : BOOLEAN]

SpecTrainAny == InitTrainAny /\ [][NextTrain]_vars

InitCells == CellsStart /\ TrainStart /\ ContractIdle /\ FitIdle

\* the notebook as written: every cell, in order, with its own constants
NextNotebook ==
    \/ CreateModel(784, 10, <<512, 256, 128>>, DefaultDropP)
    \/ Train
    \/ SaveStateDict
    \/ LoadStateDict
    \/ ApplyStateDict
    \/ MismatchedLoad(<<400, 200, 100>>)
    \/ SaveCheckpoint
    \/ LoadCheckpoint

SpecNotebook == InitCells /\ [][NextNotebook]_vars

\* the cells applied to a network of any configuration, cells after training
\* run or left out
NextCkpt ==
    \/ \E io \in Sizes, h \in HiddenLists, p \in DropPs :
          CreateModel(io[1], io[2], h, p)
    \/ Train
    \/ SaveStateDict
    \/ LoadStateDict
    \/ ApplyStateDict
    \/ \E h \in OtherHiddenLists : MismatchedLoad(h)
    \/ SaveCheckpoint
    \/ LoadCheckpoint
    \/ Skip

SpecCkpt == InitCells /\ [][NextCkpt]_vars

---------------------------------------------------------------------------
(* Constructing a network and calling it: nn.Sequential as the construction *)
(* cell of "Training Neural Networks" builds it, and fc_model.Network       *)

\* batches of 1..MaxBatch examples are passed forward
MaxBatch == 2

SeqParamNames ==
    {"fc1.weight", "fc1.bias", "fc2.weight", "fc2.bias", "logits.weight", "logits.bias"}

\* a construction cell whose fc2 takes the network's input
SequentialModel_fc2_from_input(in_size, hidden, out_size, w0) ==
    IF Len(hidden) < 2 THEN [err |-> "IndexError", model |-> None]
    ELSE LET fc == [fc1 |-> Linear(in_size, hidden[1]),
                    fc2 |-> Linear(in_size, hidden[2]),
                    logits |-> Linear(hidden[2], out_size)]
         IN  [err |-> "none",
              model |-> [linears |-> <<fc.fc1, fc.fc2, fc.logits>>,
                         training |-> TRUE,
                         params |-> [k \in SeqParamNames |-> [v |-> w0]]]]

\* a construction cell without the logits layer
SequentialModel_no_logits(in_size, hidden, out_size, w0) ==
    IF Len(hidden) < 2 THEN [err |-> "IndexError", model |-> None]
    ELSE LET fc == [fc1 |-> Linear(in_size, hidden[1]),
                    fc2 |-> Linear(hidden[1], hidden[2])]
         IN  [err |-> "none",
              model |-> [linears |-> <<fc.fc1, fc.fc2>>,
                         training |-> TRUE,
                         params |-> [k \in SeqParamNames |-> [v |-> w0]]]]

\* model = nn.Sequential(OrderedDict([('fc1', nn.Linear(input_size, hidden_sizes[0])),
\* ('relu1', nn.ReLU()), ('fc2', nn.Linear(hidden_sizes[0], hidden_sizes[1])),
\* ('relu2', nn.ReLU()), ('logits', nn.Linear(hidden_sizes[1], output_size))]));
\* hidden_sizes[0] and hidden_sizes[1] raise IndexError on a shorter list
SequentialModel(in_size, hidden, out_size, w0) ==
    IF Len(hidden) < 2 THEN [err |-> "IndexError", model |-> None]
    ELSE LET fc == [fc1 |-> Linear(in_size, hidden[1]),
                    fc2 |-> Linear(hidden[1], hidden[2]),
                    logits |-> Linear(hidden[2], out_size)]
         IN  [err |-> "none",
              model |-> [linears |-> <<fc.fc1, fc.fc2, fc.logits>>,
                         training |-> TRUE,
                         params |-> [k \in SeqParamNames |-> [v |-> w0]]]]

SeqNames == <<"fc1", "fc2", "logits">>

RECURSIVE SequentialPass(_, _, _, _)
\* the modules of the Sequential applied in order from Linear i on: a Linear
\* raises unless the last dimension of its input is its in_features; a ReLU
\* follows every Linear but the last
SequentialPass(m, i, shape, v) ==
    IF i > Len(m.linears) THEN [err |-> "none", shape |-> shape, v |-> v]
    ELSE IF shape[2] # m.linears[i].in_features
    THEN [err |-> "RuntimeError", shape |-> <<>>, v |-> 0]
    ELSE LET y == m.params[SeqNames[i] \o ".weight"].v * v
                      + m.params[SeqNames[i] \o ".bias"].v
         IN  SequentialPass(m, i + 1, <<shape[1], m.linears[i].out_features>>,
                            IF i < Len(m.linears) THEN Relu(y) ELSE y)

\* a constructor that checks the input and output sizes only
ConfigError_sizes_only(in_size, out_size, hidden) ==
    in_size <= 0 \/ out_size <= 0

\* the configurations the constructor of fc_model.Network rejects
ConfigError(in_size, out_size, hidden) ==
    in_size <= 0 \/ out_size <= 0 \/ \E i \in 1..Len(hidden) : hidden[i] <= 0

\* the constructor call a = [ctor, input_size, output_size, hidden, drop_p]
Constructed(a, w0) ==
    IF a.ctor = "Sequential"
    THEN SequentialModel(a.input_size, a.hidden, a.output_size, w0)
    ELSE IF ConfigError(a.input_size, a.output_size, a.hidden)
    THEN [err |-> "ValueError", model |-> None]
    ELSE [err |-> "none",
          model |-> Network(a.input_size, a.output_size, a.hidden, a.drop_p, w0)]

IsSequential(m) == "linears" \in DOMAIN m

\* the Linear layers of a network, in the order the forward pass applies them
LinearLayers(m) ==
    IF IsSequential(m) THEN m.linears ELSE Append(m.hidden_layers, m.output)

\* model.forward(x)
Call(m, x, keep) ==
    IF IsSequential(m) THEN SequentialPass(m, 1, x.shape, x.v)
    ELSE Forward(m, x, keep)

\* the dropout draws of one forward pass
Keeps == {<<TRUE, TRUE, TRUE>>, <<TRUE, FALSE, TRUE>>, <<FALSE, FALSE, FALSE>>}

\* the constructor calls
ConstructorCalls ==
    [ctor : {"Network"}, input_size : {0 - 1, 0, 784}, output_size : {0, 10},
     hidden : {<<>>, <<0>>, <<512>>, <<512, 0>>, <<512, 256>>, <<512, 256, 128>>},
     drop_p : DropPs]
    \cup
    [ctor : {"Sequential"}, input_size : {784}, output_size : {10},
     hidden : {<<>>, <<128>>, <<128, 64>>, <<128, 64, 32>>}, drop_p : {0}]

\* model = <constructor>(...)
Construct ==
    /\ fpc = "construct"
    /\ \E w0 \in InitValues :
          LET r == Constructed(args, w0)
          IN  /\ net' = r.model
              /\ ferr' = r.err
              /\ fpc' = IF r.err = "none" THEN "forward" ELSE "done"
    /\ UNCHANGED <<args, batch, outs>>
    /\ UNCHANGED <<ckvars, trvars, fitvars>>

\* model.eval() or model.train(), then output = model.forward(x) on a batch of
\* b examples
ForwardCall ==
    /\ fpc = "forward"
    /\ \E md \in {"train", "eval"}, b \in 1..MaxBatch, xv \in {0 - 1, 1, 2},
          width \in {args.input_size, 20}, keep \in Keeps :
          LET m == IF md = "eval" THEN Eval(net) ELSE net
              x == [shape |-> <<b, width>>, v |-> xv]
          IN  /\ net' = m
              /\ batch' = x
              /\ outs' = <<[mode |-> md, keep |-> keep, out |-> Call(m, x, keep)]>>
    /\ fpc' = "again"
    /\ UNCHANGED <<args, ferr>>
    /\ UNCHANGED <<ckvars, trvars, fitvars>>

\* output = model.forward(x) once more, on the same input, with its own
\* dropout draw
ForwardAgain ==
    /\ fpc = "again"
    /\ \E keep \in Keeps :
          outs' = Append(outs, [mode |-> outs[1].mode, keep |-> keep,
                                out |-> Call(net, batch, keep)])
    /\ fpc' = "done"
    /\ UNCHANGED <<args, net, batch, ferr>>
    /\ UNCHANGED <<ckvars, trvars, fitvars>>

InitContract ==
    /\ CellsStart
    /\ TrainStart
    /\ FitIdle
    /\ fpc = "construct"
    /\ args \in ConstructorCalls
    /\ net = None
    /\ batch = None
    /\ outs = <<>>
    /\ ferr = "none"

NextContract ==
    \/ Construct
    \/ ForwardCall
    \/ ForwardAgain

SpecContract == InitContract /\ [][NextContract]_vars

---------------------------------------------------------------------------
(* fc_model.train(model, trainloader, testloader, criterion, optimizer,     *)
(* epochs=2) statement by statement: the training steps, and every          *)
(* fit_print_every steps an evaluation pass over the test set               *)

\* examples in the training set and in the test set of the stepped training
FitTrainSize == 2600
TestSize == 100

fit_epochs == 2

\* the period of the evaluation passes: 46 progress lines for 2 epochs of 938
\* steps
fit_print_every == 40

FitBatches == (FitTrainSize + batch_size - 1) \div batch_size

TestBatches == (TestSize + batch_size - 1) \div batch_size

\* whether the dropout layers of m drop anything
DropoutActive(m) == Dropout(m, 1, FALSE) # 1

\* a model.train() that leaves the mode as it is
TrainMode_noop(m) == m

\* model.train()
TrainMode(m) == [m EXCEPT !.training = TRUE]

\* an optimizer.step() on every parameter: all take the value val
Updated(m, val) ==
    [m EXCEPT !.params = [k \in DOMAIN m.params |-> [m.params[k] EXCEPT !.v = val]]]

\* the forward pass of one test batch followed by an optimizer step
validation_updates(m, val) == Updated(m, val)

\* validation(model, testloader, criterion), one test batch: forward pass,
\* test loss and accuracy; the model is left as it is
validation(m, val) == m

\* for e in range(epochs): model.train()
FitEpochHead ==
    /\ pc = "train" /\ fat = "epoch"
    /\ IF fe + 1 < fit_epochs
       THEN /\ fe' = fe + 1
            /\ fi' = 0
            /\ model' = TrainMode(model)
            /\ fat' = "batch"
       ELSE /\ fat' = "end"
            /\ UNCHANGED <<fe, fi, model>>
    /\ UNCHANGED <<fsteps, ftest, flog, fupd, fsnap>>
    /\ UNCHANGED <<pc, state_dict, checkpoint, disk, raised, last, trained, saved, built>>
    /\ UNCHANGED <<trvars, fwvars>>

\* for images, labels in trainloader: steps += 1
FitBatchHead ==
    /\ pc = "train" /\ fat = "batch"
    /\ IF fi < FitBatches
       THEN /\ fi' = fi + 1
            /\ fsteps' = fsteps + 1
            /\ fat' = "forward"
       ELSE /\ fat' = "epoch"
            /\ UNCHANGED <<fi, fsteps>>
    /\ UNCHANGED <<fe, ftest, flog, fupd, fsnap>>
    /\ UNCHANGED <<ckvars, trvars, fwvars>>

\* optimizer.zero_grad(); output = model.forward(images);
\* loss = criterion(output, labels); loss.backward()
FitForward ==
    /\ pc = "train" /\ fat = "forward"
    /\ flog' = Append(flog, [pass |-> "train", dropout |-> DropoutActive(model)])
    /\ fat' = "update"
    /\ UNCHANGED <<fe, fi, fsteps, ftest, fupd, fsnap>>
    /\ UNCHANGED <<ckvars, trvars, fwvars>>

\* optimizer.step(); running_loss += loss.item()
FitUpdate ==
    /\ pc = "train" /\ fat = "update"
    /\ \E val \in ParamValues : model' = Updated(model, val)
    /\ fupd' = fupd + 1
    /\ fat' = "report"
    /\ UNCHANGED <<fe, fi, fsteps, ftest, flog, fsnap>>
    /\ UNCHANGED <<pc, state_dict, checkpoint, disk, raised, last, trained, saved, built>>
    /\ UNCHANGED <<trvars, fwvars>>

\* if steps % print_every == 0: model.eval()
FitReport ==
    /\ pc = "train" /\ fat = "report"
    /\ IF fsteps % fit_print_every = 0
       THEN /\ model' = Eval(model)
            /\ fsnap' = model.params
            /\ ftest' = 0
            /\ fat' = "evaluate"
       ELSE /\ fat' = "batch"
            /\ UNCHANGED <<model, fsnap, ftest>>
    /\ UNCHANGED <<fe, fi, fsteps, flog, fupd>>
    /\ UNCHANGED <<pc, state_dict, checkpoint, disk, raised, last, trained, saved, built>>
    /\ UNCHANGED <<trvars, fwvars>>

\* with torch.no_grad(): test_loss, accuracy = validation(model, testloader,
\* criterion), one test batch at a time
FitValidate ==
    /\ pc = "train" /\ fat = "evaluate"
    /\ IF ftest < TestBatches
       THEN /\ ftest' = ftest + 1
            /\ flog' = Append(flog, [pass |-> "eval", dropout |-> DropoutActive(model)])
            /\ \E val \in ParamValues : model' = validation(model, val)
            /\ fupd' = IF model' = model THEN fupd ELSE fupd + 1
            /\ fat' = fat
       ELSE /\ fat' = "resume"
            /\ UNCHANGED <<ftest, flog, model, fupd>>
    /\ UNCHANGED <<fe, fi, fsteps, fsnap>>
    /\ UNCHANGED <<pc, state_dict, checkpoint, disk, raised, last, trained, saved, built>>
    /\ UNCHANGED <<trvars, fwvars>>

\* print(epoch, training loss, test loss, test accuracy); running_loss = 0;
\* model.train()
FitResume ==
    /\ pc = "train" /\ fat = "resume"
    /\ model' = TrainMode(model)
    /\ fat' = "batch"
    /\ UNCHANGED <<fe, fi, fsteps, ftest, flog, fupd, fsnap>>
    /\ UNCHANGED <<pc, state_dict, checkpoint, disk, raised, last, trained, saved, built>>
    /\ UNCHANGED <<trvars, fwvars>>

\* fc_model.train returns
FitEnd ==
    /\ pc = "train" /\ fat = "end"
    /\ fat' = "off"
    /\ trained' = model
    /\ pc' = After("train")
    /\ last' = "train"
    /\ raised' = "none"
    /\ UNCHANGED <<fe, fi, fsteps, ftest, flog, fupd, fsnap>>
    /\ UNCHANGED <<model, state_dict, checkpoint, disk, saved, built>>
    /\ UNCHANGED <<trvars, fwvars>>

\* the notebook when the training cell starts
InitFit ==
    /\ pc = "train"
    /\ \E p \in DropPs, w0 \in InitValues :
          model = Network(784, 10, <<512, 256, 128>>, p, w0)
    /\ built = model
    /\ state_dict = None
    /\ checkpoint = None
    /\ disk = [exists |-> FALSE, data |-> <<>>]
    /\ raised = "none"
    /\ last = "create"
    /\ trained = None
    /\ saved = None
    /\ TrainStart
    /\ ContractIdle
    /\ fat = "epoch"
    /\ fe = 0 - 1
    /\ fi = 0
    /\ fsteps = 0
    /\ ftest = 0
    /\ flog = <<>>
    /\ fupd = 0
    /\ fsnap = None

NextFit ==
    \/ FitEpochHead
    \/ FitBatchHead
    \/ FitForward
    \/ FitUpdate
    \/ FitReport
    \/ FitValidate
    \/ FitResume
    \/ FitEnd

SpecFit == InitFit /\ [][NextFit]_vars

---------------------------------------------------------------------------
(* Properties of checkpoint persistence *)

\* load_checkpoint returned a model
Loaded == last = "load_ckpt" /\ raised = "none"

\* the hidden widths a state dict describes
SdHidden(sd) == [i \in 1..SdLayers(sd) |-> sd[WeightName[i]].shape[1]]

C4_LoadCopiesStored ==
    Loaded =>
        /\ \E w0 \in InitValues :
              built = Network(checkpoint["input_size"], checkpoint["output_size"],
                              checkpoint["hidden_layers"], DefaultDropP, w0)
        /\ DOMAIN model.params = DOMAIN checkpoint["state_dict"]
        /\ \A k \in DOMAIN checkpoint["state_dict"] :
              /\ model.params[k].shape = checkpoint["state_dict"][k].shape
              /\ model.params[k].v = checkpoint["state_dict"][k].v

\* a load that replaced every constructed value by a different stored one
C4_Witness ==
    /\ Loaded
    /\ Len(model.hidden_layers) >= 1
    /\ \A k \in DOMAIN model.params : model.params[k].v # built.params[k].v

\* C5: a stored state dict loaded into a classifier built with other hidden layers
\* raises, and every parameter of that classifier keeps its constructed shape and
\* holds either its constructed value or a whole stored parameter of that shape
C5_MismatchRaises ==
    (last = "mismatch" /\ state_dict # None
        /\ HiddenWidths(built) # SdHidden(state_dict)) =>
        /\ raised = "RuntimeError"
        /\ \A k \in DOMAIN model.params :
              /\ model.params[k].shape = built.params[k].shape
              /\ \/ model.params[k] = built.params[k]
                 \/ k \in DOMAIN state_dict /\ model.params[k] = state_dict[k]

\* a stored state dict met a classifier with another number of hidden layers
C5_Witness ==
    /\ last = "mismatch"
    /\ state_dict # None
    /\ Len(built.hidden_layers) # SdLayers(state_dict)
    /\ raised = "RuntimeError"

\* a stored state dict met a classifier with as many hidden layers of other widths
C5_WitnessWidths ==
    /\ last = "mismatch"
    /\ state_dict # None
    /\ Len(built.hidden_layers) = SdLayers(state_dict)
    /\ HiddenWidths(built) # SdHidden(state_dict)
    /\ raised = "RuntimeError"

\* the stored parameter shapes differ from those of the architecture built from
\* the checkpoint's own input_size, output_size and hidden_layers
Drift(c) ==
    LET expect == Network(c["input_size"], c["output_size"], c["hidden_layers"],
                          DefaultDropP, 0).params
    IN  \/ DOMAIN expect # DOMAIN c["state_dict"]
        \/ \E k \in DOMAIN expect : expect[k].shape # c["state_dict"][k].shape

\* C6: load_checkpoint on a checkpoint whose stored shapes do not match the
\* architecture of its own configuration fields raises and binds no model
C6_LoadFailsOnDrift ==
    [][(LoadCheckpoint /\ checkpoint # None /\ disk = SaveCheckpointFile(checkpoint)
            /\ Drift(checkpoint))
        => (raised' = "RuntimeError" /\ model' = model)]_vars

\* load_checkpoint ran on a checkpoint saved from a network whose input width is
\* not the stored input_size
C6_Witness ==
    /\ last = "load_ckpt"
    /\ checkpoint # None
    /\ disk = SaveCheckpointFile(checkpoint)
    /\ Drift(checkpoint)
    /\ InputWidth(saved) # checkpoint["input_size"]
    /\ raised = "RuntimeError"

\* C7: the configuration fields of a saved checkpoint are the saved model's input
\* width, output width and hidden widths
C7_StoredConfigDescribesModel ==
    checkpoint # None =>
        /\ checkpoint["input_size"] = InputWidth(saved)
        /\ checkpoint["output_size"] = OutputWidth(saved)
        /\ checkpoint["hidden_layers"] = HiddenWidths(saved)

\* C8: the model load_checkpoint returns has the saved model's dropout probability
C8_DropoutRestored == Loaded => model.drop_p = saved.drop_p

\* C9: whenever 'checkpoint.pth' exists it holds the four checkpoint keys
C9_FileAlwaysCheckpoint ==
    disk.exists => {"input_size", "output_size", "hidden_layers", "state_dict"}
                       \subseteq FileKeys(disk)

\* C9, amended: once the checkpoint save cell has run, 'checkpoint.pth' exists and
\* holds exactly the four checkpoint keys, and load_checkpoint reads them
C9_FileCheckpointAfterSave ==
    pc \in {"load_ckpt", "done"} =>
        /\ disk.exists
        /\ FileKeys(disk) = {"input_size", "output_size", "hidden_layers", "state_dict"}
        /\ \A w0 \in InitValues :
              load_checkpoint(disk, w0).err \notin {"FileNotFoundError", "KeyError"}

\* the checkpoint save cell has overwritten the state dict the file held
C9_Witness ==
    /\ pc = "load_ckpt"
    /\ last = "save_ckpt"
    /\ state_dict # None
    /\ disk.exists

\* C10: after the cells ran in their written order the loaded model has the
\* trained model's architecture and parameter values
C10_LoadedIsTrained ==
    pc = "done" =>
        /\ raised = "none"
        /\ model.hidden_layers = trained.hidden_layers
        /\ model.output = trained.output
        /\ model.params = trained.params

---------------------------------------------------------------------------
(* Properties of the training step and the training loop *)

IsPrefix(s, t) == Len(s) <= Len(t) /\ \A i \in 1..Len(s) : s[i] = t[i]

\* C1: the steps run on a mini-batch are always a prefix of gradient reset,
\* forward pass, loss, backward pass, optimizer step; after the optimizer step
\* all five have run, once each; the parameters have had exactly one update per
\* completed mini-batch; and the next mini-batch starts only when the five steps
\* of the current one have run
C1_StepOrder ==
    /\ [](IsPrefix(log, StepOrder))
    /\ [](at \in {"end", "accumulate", "report", "batch", "epoch"} => log = StepOrder)
    /\ [](Len(weights) = cur + (IF log = StepOrder THEN 1 ELSE 0))
    /\ [][cur' # cur => log = StepOrder]_vars

\* a mini-batch of a later epoch has been through its five steps
C1_Witness ==
    /\ cell = "loop"
    /\ e >= 1
    /\ at = "accumulate"
    /\ log = StepOrder

\* C2: the gradient is zero when a forward pass starts, and the gradient every
\* optimizer step applies is the gradient of the loss of that step's own
\* mini-batch, taken at the parameters of that step, and nothing else
C2_GradientOfCurrentBatch ==
    /\ at = "forward" => grad = <<>>
    /\ at = "step" => grad = <<[batch |-> cur, version |-> Len(weights)]>>
    /\ \A i \in 1..Len(weights) :
          weights[i].grad = <<[batch |-> i - 1, version |-> i - 1]>>

\* an optimizer step of the second epoch has applied its gradient, after the
\* gradients of earlier mini-batches had been in .grad
C2_Witness ==
    /\ cell = "loop"
    /\ e >= 1
    /\ at = "accumulate"
    /\ Len(weights) = steps + 1
    /\ steps > NumBatches

\* C14: the parameters change only in the optimizer step, by that step's update;
\* the gradient reset, the forward pass, the loss, the backward pass, the loss
\* accumulation, the progress report and the prediction pass leave them as they are
C14_OnlyStepChangesParameters ==
    [][weights' # weights =>
          /\ at = "step"
          /\ log' = Append(log, "step")
          /\ weights' = step(weights, lr, grad)]_vars

\* the loop ran to its end with a progress line printed, and the prediction
\* pass ran after it
C14_Witness ==
    /\ cell = "done"
    /\ at = "end"
    /\ printed # <<>>
    /\ output.batch = "img"
    /\ Len(weights) = epochs * NumBatches + 1

\* C15: an exception in the forward pass, the loss or the backward pass of a
\* mini-batch ends the loop: that mini-batch gets no optimizer step and is not
\* run again, no later mini-batch or epoch starts, and the parameters stay as the
\* previous mini-batch's optimizer step left them
C15_ErrorAbortsLoop ==
    /\ [](exc # "none" =>
             /\ cell = "done"
             /\ \A i \in DOMAIN log : log[i] # "step"
             /\ Len(weights) = cur)
    /\ [][exc' # "none" =>
             UNCHANGED <<weights, grad, steps, it, e, cur, running_loss, printed>>]_vars

\* the backward pass of a mini-batch of the second epoch raised
C15_Witness ==
    /\ exc = "RuntimeError"
    /\ e >= 1
    /\ steps > NumBatches
    /\ log = <<"zero_grad", "forward", "loss">>
    /\ Len(weights) = steps

\* C16: when the examples of a batch do not have 784 elements, no forward pass
\* runs on the batch and no optimizer step follows
C16_ShapeErrorRaised ==
    env.elems # 784 => (output = None /\ weights = <<>>)

---------------------------------------------------------------------------
(* Properties of construction and of the forward pass *)

\* C13: in evaluation mode a second forward pass of the same network on the
\* same input, with no parameter update in between, gives the output of the
\* first, whatever the dropout layers would draw
C13_EvalForwardRepeats ==
    (fpc = "done" /\ ferr = "none" /\ outs[1].mode = "eval") =>
        outs[2].out = outs[1].out

\* two evaluation-mode passes of a network with hidden layers gave a nonzero
\* logit under different dropout draws
C13_Witness ==
    /\ fpc = "done"
    /\ Len(outs) = 2
    /\ outs[1].mode = "eval"
    /\ ~IsSequential(net)
    /\ Len(net.hidden_layers) >= 2
    /\ outs[1].keep # outs[2].keep
    /\ outs[1].out.err = "none"
    /\ outs[1].out.v # 0

\* in training mode the two passes can differ
C13_TrainingDiffers ==
    /\ fpc = "done"
    /\ Len(outs) = 2
    /\ outs[1].mode = "train"
    /\ outs[1].out.err = "none"
    /\ outs[2].out # outs[1].out

C18_EmptyHiddenList ==
    (fpc # "construct" /\ args.hidden = <<>>
        /\ args.input_size > 0 /\ args.output_size > 0) =>
        /\ ferr = "none"
        /\ net # None
        /\ LinearLayers(net) = <<Linear(args.input_size, args.output_size)>>

\* C19: a forward pass of a constructed network on a batch of b >= 1 examples of
\* the network's input size succeeds and its output has the shape
\* (b, output size)
C19_ForwardShape ==
    (fpc \in {"again", "done"} /\ ferr = "none"
        /\ batch.shape[2] = args.input_size) =>
        \A i \in 1..Len(outs) :
            /\ outs[i].out.err = "none"
            /\ batch.shape[1] >= 1
            /\ outs[i].out.shape = <<batch.shape[1], args.output_size>>

\* both kinds of network passed a batch of more than one example forward
C19_Witness ==
    /\ fpc = "done"
    /\ Len(outs) = 2
    /\ batch.shape = <<MaxBatch, 784>>
    /\ IsSequential(net)
    /\ outs[2].out.shape = <<MaxBatch, 10>>

\* a batch of another width is refused
C19_WitnessWrongWidth ==
    /\ fpc = "done"
    /\ Len(outs) = 2
    /\ batch.shape[2] # args.input_size
    /\ outs[1].out.err = "RuntimeError"

\* C20: the linear layers of every constructed network chain: the first takes
\* the input size, every later one takes what the one before it gives, the
\* i-th hidden layer gives the i-th hidden size, the last gives the output size
C20_LayersChain ==
    net # None =>
        LET ls == LinearLayers(net)
        IN  /\ ls[1].in_features = args.input_size
            /\ \A i \in 2..Len(ls) : ls[i].in_features = ls[i - 1].out_features
            /\ \A i \in 1..(Len(ls) - 1) : ls[i].out_features = args.hidden[i]
            /\ ls[Len(ls)].out_features = args.output_size

\* a network of three hidden layers and one built by the construction cell
C20_Witness ==
    /\ net # None
    /\ Len(LinearLayers(net)) = 4
    /\ args.hidden = <<512, 256, 128>>

C20_WitnessSequential ==
    /\ net # None
    /\ IsSequential(net)
    /\ args.hidden = <<128, 64>>

---------------------------------------------------------------------------
(* Properties of the evaluation passes of fc_model.train *)

\* an evaluation pass is running
InEvaluationPass == fat \in {"evaluate", "resume"}

\* C11: while an evaluation pass runs no step changes a parameter and no
\* optimizer step is taken, and the parameters at its end are those at its start
C11_EvaluationKeepsParameters ==
    /\ [][InEvaluationPass =>
             (model'.params = model.params /\ fupd' = fupd)]_vars
    /\ [](InEvaluationPass => model.params = fsnap)
    /\ [](fupd = fsteps - (IF fat \in {"forward", "update"} THEN 1 ELSE 0))

\* the second evaluation pass has been through every test batch, on parameters
\* that training had changed
C11_Witness ==
    /\ fat = "resume"
    /\ fsteps = 2 * fit_print_every
    /\ ftest = TestBatches
    /\ fupd = fsteps
    /\ model.params # built.params

\* C12: the dropout layers drop in every forward pass of training and in no
\* forward pass of an evaluation pass, before and after every evaluation pass
C12_DropoutOnlyInTraining ==
    \A i \in DOMAIN flog : flog[i].dropout <=> flog[i].pass = "train"

\* a training forward pass ran with dropout after an evaluation pass had run
\* without it
C12_Witness ==
    /\ fat = "update"
    /\ fsteps > fit_print_every
    /\ flog[Len(flog)] = [pass |-> "train", dropout |-> TRUE]
    /\ \E i \in DOMAIN flog : flog[i] = [pass |-> "eval", dropout |-> FALSE]

---------------------------------------------------------------------------
(* Properties of the epochs, the step counter and the progress lines *)

\* C22: the training loop ends; when it has ended it has run `epochs` epochs;
\* every epoch starts its batch sequence anew, takes the batches one by one and
\* ends only when all NumBatches batches have been handed out
C22_LoopTerminates ==
    /\ <>(cell = "done")
    /\ [](cell \in {"predict", "done"} =>
             (e = epochs - 1 /\ it = NumBatches /\ steps = epochs * NumBatches))
    /\ [](e < epochs /\ it <= NumBatches)
    /\ [][it' # it => (it' = it + 1 \/ (it' = 0 /\ e' = e + 1))]_vars
    /\ [][e' # e => (e' = e + 1 /\ it' = 0 /\ (e >= 0 => it = NumBatches))]_vars

\* the loop has ended after the last batch of the last epoch
C22_Witness ==
    /\ cell = "predict"
    /\ e = epochs - 1
    /\ it = NumBatches
    /\ Len(weights) = epochs * NumBatches + 1

\* the steps lo..hi
StepsFromTo(lo, hi) == [i \in 1..(hi - lo + 1) |-> lo + i - 1]

\* the loss of the current mini-batch is not yet in running_loss
BeforeAccumulate ==
    at \in {"zero_grad", "forward", "loss", "backward", "step", "accumulate"}

\* C23: whenever a progress line is about to be printed, running_loss is the sum
\* of the losses of the print_every latest mini-batches
C23_ReportOverPrintEvery ==
    (cell = "loop" /\ at = "report" /\ steps % print_every = 0) =>
        summed = StepsFromTo(steps - print_every + 1, steps)

\* C24: a progress line is printed at the mini-batches whose step number is a
\* positive multiple of print_every and at no other, so when the loop has ended
\* (epochs * NumBatches) \div print_every lines are printed; the epoch of every
\* line is in 1..epochs and the epochs of the lines never decrease
C24_LinesAtMultiples ==
    /\ [][printed' # printed =>
             /\ at = "report"
             /\ steps > 0
             /\ steps % print_every = 0
             /\ Len(printed') = Len(printed) + 1
             /\ printed'[Len(printed')].epoch = e + 1]_vars
    /\ [][(at = "report" /\ steps % print_every = 0) => printed' # printed]_vars
    /\ [](at \in {"batch", "epoch"} => Len(printed) = steps \div print_every)
    /\ [](cell \in {"predict", "done"} =>
             Len(printed) = (epochs * NumBatches) \div print_every)
    /\ [](\A i \in DOMAIN printed :
             /\ printed[i].epoch \in 1..epochs
             /\ i > 1 => printed[i - 1].epoch <= printed[i].epoch)

\* two lines of different epochs are printed when the loop has ended
C24_Witness ==
    /\ cell = "predict"
    /\ Len(printed) = 2
    /\ printed[1].epoch < printed[2].epoch

\* C25: steps is 0 when the loop starts, goes up by one when a mini-batch is
\* fetched and at no other time, and in epoch e after `it` batches it is
\* e * NumBatches + it
C25_StepsCountBatches ==
    /\ [](cell = "loop" => steps = (IF e < 0 THEN 0 ELSE e * NumBatches) + it)
    /\ [][steps' # steps =>
             (at = "batch" /\ steps' = steps + 1 /\ it' = it + 1)]_vars
    /\ [][cell = "single" /\ cell' = "loop" => steps' = 0]_vars

\* the first mini-batch of the second epoch has been counted
C25_Witness ==
    /\ cell = "loop"
    /\ e = 1
    /\ it = 1
    /\ steps = NumBatches + 1

\* C26: running_loss sums the losses of the mini-batches after the later of the
\* start of the epoch and the last progress line, up to the current one; it is
\* changed only by adding the current loss or by being set to 0, which also
\* drops the losses an ending epoch had not reported
C26_RunningLossSince ==
    /\ [](cell = "loop" /\ e >= 0 =>
             LET reported == IF BeforeAccumulate \/ at = "report"
                             THEN steps - 1 ELSE steps
                 lastline == print_every * (reported \div print_every)
                 start == e * NumBatches
                 since == IF start > lastline THEN start ELSE lastline
                 upto == IF BeforeAccumulate THEN steps - 1 ELSE steps
             IN  /\ summed = StepsFromTo(since + 1, upto)
                 /\ running_loss >= Len(summed)
                 /\ running_loss <= 2 * Len(summed))
    /\ [][running_loss' # running_loss =>
             \/ /\ at = "accumulate"
                /\ running_loss' = running_loss + loss.item
                /\ loss.batch = steps
             \/ /\ running_loss' = 0
                /\ at \in {"epoch", "report"}]_vars

\* the second epoch starts with running_loss 0 though no line was printed for
\* the losses of the first
C26_Witness ==
    /\ cell = "loop"
    /\ at = "batch"
    /\ e = 1
    /\ it = 0
    /\ printed = <<>>
    /\ running_loss = 0
    /\ steps = NumBatches

\* C28: every mini-batch of the loop has the shape (b, 784), b the number of
\* examples the loader had left for it, a last batch of fewer than batch_size
\* examples included; that batch goes through the five steps and adds its loss
C28_BatchKeepsOwnLength ==
    (cell = "loop" /\ it >= 1) =>
        /\ images = <<IF it * batch_size <= TrainSize THEN batch_size
                       ELSE TrainSize - (it - 1) * batch_size,
                      784>>
        /\ images[1] >= 1
        /\ at \in {"batch", "epoch"} =>
              /\ log = StepOrder
              /\ Len(weights) = steps + 1
              /\ (summed # <<>> => summed[Len(summed)] = steps)

\* the last mini-batch of an epoch is shorter and has been through its steps
C28_Witness ==
    /\ cell = "loop"
    /\ at = "batch"
    /\ it = NumBatches
    /\ images[1] < batch_size
    /\ log = StepOrder
    /\ summed # <<>>

---------------------------------------------------------------------------
(* The target of a load that failed *)

\* C27: after load_state_dict raised on the network the mismatch cell built,
\* every parameter of that network has the value it was constructed with
C27_FailedLoadLeavesTarget ==
    (last = "mismatch" /\ raised = "RuntimeError") => model.params = built.params

====
